---- MODULE Spec2Model ----
(***************************************************************************)
(* purelint: the two stateful checkers of src/src/purelint/__init__.py.    *)
(*                                                                         *)
(*   RebindChecker           a stack of scopes (sets of bound names),      *)
(*                           driven by open / visit_functiondef /          *)
(*                           leave_functiondef / visit_assign.             *)
(*   ExhaustiveMatchChecker  visit_match: resolve the subject's declared   *)
(*                           type to a set of variant labels and report    *)
(*                           the labels no case clause handles.            *)
(*                                                                         *)
(* Spec      is the RebindChecker under any sequence of callbacks.         *)
(* MatchSpec is the ExhaustiveMatchChecker applied to one match node of a  *)
(*           parsed module, drawn from MatchNodes.                         *)
(***************************************************************************)
EXTENDS Integers, Sequences, FiniteSets, TLC

VARIABLES
    scopes,     \* RebindChecker.scopes: sequence of sets of names, innermost last
    history,    \* per live scope instance, the names bound in it so far (observer)
    past,       \* names bound in functions already left, names shadowed (observer)
    messages,   \* messages the linter has collected since the last release
    call,       \* the most recent callback: [op, stmt, before]
    err,        \* exception raised by the most recent callback, or "none"
    tree        \* the match node under analysis (MatchSpec)

vars == <<scopes, history, past, messages, call, err, tree>>

----------------------------------------------------------------------------
(* Bounds of the exploration                                               *)

MaxDepth == 2       \* longest scope stack explored
MaxTargets == 2     \* most targets of one assignment statement
MaxMessages == 1    \* callbacks run while fewer messages than this are pending
MaxCases == 2       \* most case clauses of one match statement

Names == {"x", "y"}         \* variable names assigned by the analysed program
StmtIds == {1, 2}           \* identities (locations) of assignment statements

----------------------------------------------------------------------------
(* Small helpers                                                           *)

Last(s) == s[Len(s)]

Front(s) == SubSeq(s, 1, Len(s) - 1)

SeqsUpTo(S, n) == UNION {[1..k -> S] : k \in 1..n}

\* every order in which the elements of a finite set can be enumerated
Orderings(S) ==
    {f \in [1..Cardinality(S) -> S] : \A i, j \in 1..Cardinality(S) : f[i] = f[j] => i = j}

\* the messages the most recent callback added
Emitted == SubSeq(messages, call.before + 1, Len(messages))

NoNode == [id |-> 0, targets |-> <<>>]

\* what `call` keeps of a visited statement: its identity and the names it binds
NoStmt == [id |-> 0, names |-> {}]

----------------------------------------------------------------------------
(* Tree model: assignment statements                                       *)

\* a target is a simple name (AssignName) or something else (AssignAttr: obj.x = ...)
Targets == [kind : {"AssignName"}, name : Names] \cup {[kind |-> "AssignAttr", name |-> "x"]}

AssignNodes == [id : StmtIds, targets : SeqsUpTo(Targets, MaxTargets)]

----------------------------------------------------------------------------
(* Observer: what the analysed program did, kept beside the checker's own  *)
(* state and never read by it.                                             *)
(*   history        one entry per live scope instance, innermost last:     *)
(*                  kind "module" (pushed by open) or "function", and the  *)
(*                  names bound while that instance was innermost          *)
(*   past.left      names bound in function instances left since open()    *)
(*   past.shadowed  names a function bound while the instance directly     *)
(*                  enclosing it already had them                          *)

Instance(k) == [kind |-> k, names |-> {}]

NoPast == [left |-> {}, shadowed |-> {}]

\* the simple names an assignment statement binds
NamesBoundBy(node) ==
    {t.name : t \in {node.targets[i] : i \in 1..Len(node.targets)} \cap
                    [kind : {"AssignName"}, name : Names]}

\* the simple names an assignment statement has as a target more than once
NamesRepeatedBy(node) ==
    {n \in NamesBoundBy(node) :
        Cardinality({i \in 1..Len(node.targets) :
            node.targets[i] = [kind |-> "AssignName", name |-> n]}) >= 2}

Visited(node) ==
    [id |-> node.id, names |-> NamesBoundBy(node), repeated |-> NamesRepeatedBy(node)]

\* what `call` keeps of an open(): the number of scope instances that were live and
\* the names bound, in any scope, since the open() before it
Discarded(h) ==
    [id |-> 0, names |-> past.left \cup UNION {h[i].names : i \in 1..Len(h)},
     depth |-> Len(h)]

HistoryAssign(h, node) == [h EXCEPT ![Len(h)].names = @ \cup NamesBoundBy(node)]

PastLeave(h) ==
    IF h # <<>> /\ Last(h).kind = "function"
    THEN [past EXCEPT !.left = @ \cup Last(h).names]
    ELSE past

PastAssign(h, node) ==
    IF Len(h) >= 2 /\ Last(h).kind = "function"
    THEN [past EXCEPT !.shadowed = @ \cup (NamesBoundBy(node) \cap h[Len(h) - 1].names)]
    ELSE past

----------------------------------------------------------------------------
(* RebindChecker                                                           *)

Message(msgid, node, args) == [msg_id |-> msgid, node |-> node.id, args |-> args]

OutermostIndex(stack) == 1

\* a mutant of Open: the module scope is created only when there is no scope yet
OpenWhenEmpty ==
    /\ scopes' = IF scopes = <<>> THEN <<{}>> ELSE scopes
    /\ history' = <<Instance("module")>>
    /\ past' = NoPast
    /\ call' = [op |-> "open", stmt |-> Discarded(history), before |-> Len(messages)]
    /\ err' = "none"
    /\ UNCHANGED <<messages, tree>>

\* self.scopes[-1]: the position of the innermost scope
InnermostIndex(stack) == Len(stack)

RebindNamesAnyScope(node, stack) ==
    {node.targets[i].name : i \in {j \in 1..Len(node.targets) :
        /\ node.targets[j].kind = "AssignName"
        /\ \E k \in 1..Len(stack) : node.targets[j].name \in stack[k]}}

\* a mutant of RebindNames: the targets are taken one after the other, each seeing
\* the names of the targets before it as already bound
RebindNamesSequential(node, stack) ==
    LET scope == stack[InnermostIndex(stack)]
    IN  {node.targets[i].name : i \in {j \in 1..Len(node.targets) :
            /\ node.targets[j].kind = "AssignName"
            /\ \/ node.targets[j].name \in scope
               \/ \E k \in 1..(j - 1) : node.targets[k] = node.targets[j]}}

\* scope = self.scopes[-1]
\* { target.name for target in node.targets
\*       if isinstance(target, nodes.AssignName) and target.name in scope }
RebindNames(node, stack) ==
    LET scope == stack[InnermostIndex(stack)]
    IN  {node.targets[i].name : i \in {j \in 1..Len(node.targets) :
            node.targets[j].kind = "AssignName" /\ node.targets[j].name \in scope}}

NewNamesFirstTarget(node) ==
    IF node.targets[1].kind = "AssignName" THEN {node.targets[1].name} ELSE {}

\* { target.name for target in node.targets if isinstance(target, nodes.AssignName) }
NewNames(node) ==
    {node.targets[i].name : i \in {j \in 1..Len(node.targets) :
        node.targets[j].kind = "AssignName"}}

\* __init__: no scope at all until open() is called
Init ==
    /\ scopes = <<>>
    /\ history = <<>>
    /\ past = NoPast
    /\ messages = <<>>
    /\ call = [op |-> "__init__", stmt |-> NoStmt, before |-> 0]
    /\ err = "none"
    /\ tree = NoNode

\* open(): self.scopes = [set()]
Open ==
    /\ scopes' = <<{}>>
    /\ history' = <<Instance("module")>>
    /\ past' = NoPast
    /\ call' = [op |-> "open", stmt |-> Discarded(history), before |-> Len(messages)]
    /\ err' = "none"
    /\ UNCHANGED <<messages, tree>>

\* visit_functiondef: self.scopes.append(set())
VisitFunctionDef ==
    /\ Len(scopes) < MaxDepth
    /\ scopes' = Append(scopes, {})
    /\ history' = Append(history, Instance("function"))
    /\ call' = [op |-> "visit_functiondef", stmt |-> NoStmt, before |-> Len(messages)]
    /\ err' = "none"
    /\ UNCHANGED <<past, messages, tree>>

\* a mutant of LeaveFunctionDef: the outermost scope is removed, not the innermost
LeaveFunctionDefOutermost ==
    /\ call' = [op |-> "leave_functiondef", stmt |-> NoStmt, before |-> Len(messages)]
    /\ IF scopes = <<>>
       THEN /\ err' = "IndexError"
            /\ UNCHANGED <<scopes, history, past>>
       ELSE /\ scopes' = Tail(scopes)
            /\ history' = Front(history)
            /\ past' = PastLeave(history)
            /\ err' = "none"
    /\ UNCHANGED <<messages, tree>>

\* leave_functiondef: self.scopes.pop(); list.pop() on an empty list raises IndexError
LeaveFunctionDef ==
    /\ call' = [op |-> "leave_functiondef", stmt |-> NoStmt, before |-> Len(messages)]
    /\ IF scopes = <<>>
       THEN /\ err' = "IndexError"
            /\ UNCHANGED <<scopes, history, past>>
       ELSE /\ scopes' = Front(scopes)
            /\ history' = Front(history)
            /\ past' = PastLeave(history)
            /\ err' = "none"
    /\ UNCHANGED <<messages, tree>>

\* visit_assign: self.scopes[-1] raises IndexError on an empty list; otherwise one
\* message per name of rebind_names (a Python set: the iteration order is not
\* fixed), then scope.update(new_names)
VisitAssign(node) ==
    /\ Len(messages) < MaxMessages
    /\ call' = [op |-> "visit_assign", stmt |-> Visited(node), before |-> Len(messages)]
    /\ IF scopes = <<>>
       THEN /\ err' = "IndexError"
            /\ UNCHANGED <<scopes, history, past, messages>>
       ELSE /\ \E order \in Orderings(RebindNames(node, scopes)) :
                 messages' = messages \o
                     [i \in 1..Len(order) |-> Message("rebind", node, <<order[i]>>)]
            /\ scopes' = [scopes EXCEPT ![InnermostIndex(scopes)] = @ \cup NewNames(node)]
            /\ history' = HistoryAssign(history, node)
            /\ past' = PastAssign(history, node)
            /\ err' = "none"
    /\ UNCHANGED tree

\* the linter hands over the collected messages and forgets them
ReleaseMessages ==
    /\ messages # <<>>
    /\ messages' = <<>>
    /\ call' = [op |-> "release_messages", stmt |-> NoStmt, before |-> 0]
    /\ err' = "none"
    /\ UNCHANGED <<scopes, history, past, tree>>

Next ==
    \/ Open
    \/ VisitFunctionDef
    \/ LeaveFunctionDef
    \/ \E node \in AssignNodes : VisitAssign(node)
    \/ ReleaseMessages

Spec == Init /\ [][Next]_vars

\* The host stops the traversal (a fatal condition while walking a module): no further
\* callback of this traversal is made. The checker has no handler for this, neither a
\* finally clause nor a close(): none of its code runs and its state stays as it is.
AbortTraversal ==
    /\ history # <<>>
    /\ call' = [op |-> "abort", stmt |-> NoStmt, before |-> Len(messages)]
    /\ UNCHANGED <<scopes, history, past, messages, err, tree>>

AbortNext ==
    \/ Next
    \/ AbortTraversal

\* the RebindChecker under a host that may abandon a traversal
AbortSpec == Init /\ [][AbortNext]_vars

----------------------------------------------------------------------------
(* Tree model: type expressions, definitions, patterns, match statements   *)

Name(n) == [kind |-> "Name", name |-> n]

Attribute(e, a) == [kind |-> "Attribute", expr |-> e, attrname |-> a]

ConstNone == [kind |-> "Const", value |-> "None"]

BinOp(l, r) == [kind |-> "BinOp", op |-> "|", left |-> l, right |-> r]

Tuple(es) == [kind |-> "Tuple", elts |-> es]

Subscript(v, sl) == [kind |-> "Subscript", value |-> v, slice |-> sl]

\* the value Python's None has where a node is expected
NoneNode == [kind |-> "None"]

\* statements of a class body
AssignStmt(n) == [kind |-> "Assign", targets |-> <<[kind |-> "AssignName", name |-> n]>>]

AnnAssignStmt == [kind |-> "AnnAssign"]

MethodStmt == [kind |-> "FunctionDef"]

ClassDef(stmts) == [kind |-> "ClassDef", body |-> stmts]

\* the AssignName of `Alias = <value>` and of `Alias: TypeAlias = <value>`
AliasDef(v) == [kind |-> "AssignName", parent |-> [kind |-> "Assign", value |-> v]]

AnnotatedAliasDef(v) == [kind |-> "AssignName", parent |-> [kind |-> "AnnAssign", value |-> v]]

\* The module the match statement lives in (the programs of the functional tests):
\*   class Color(Enum): RED = 1; GREEN = 2; BLUE = 3   (and a method)
\*   @dataclass class Ok: value: int      @dataclass class Err: msg: str
\*   Result = Union[Ok, Err]       ResultP = Ok | Err      MaybeResult = Union[Ok, Err] | None
\*   Single = Union[Ok]            Tint = Color            Typed: TypeAlias = Union[Ok, Err]
\*   def helper(): ...             bool is the builtin class (no assignment in its body)
\* annotation.lookup(name) gives the definitions of name, nearest first.
Lookup(n) ==
    CASE n = "Color" -> <<ClassDef(<<AssignStmt("RED"), AssignStmt("GREEN"), MethodStmt,
                                     AssignStmt("BLUE")>>)>>
      [] n = "Ok" -> <<ClassDef(<<AnnAssignStmt>>)>>
      [] n = "Err" -> <<ClassDef(<<AnnAssignStmt>>)>>
      [] n = "Result" -> <<AliasDef(Subscript(Name("Union"), Tuple(<<Name("Ok"), Name("Err")>>)))>>
      [] n = "ResultP" -> <<AliasDef(BinOp(Name("Ok"), Name("Err")))>>
      [] n = "MaybeResult" ->
            <<AliasDef(BinOp(Subscript(Name("Union"), Tuple(<<Name("Ok"), Name("Err")>>)),
                             ConstNone))>>
      [] n = "Single" -> <<AliasDef(Subscript(Name("Union"), Name("Ok")))>>
      [] n = "Tint" -> <<AliasDef(Name("Color"))>>
      [] n = "Typed" ->
            <<AnnotatedAliasDef(Subscript(Name("Union"), Tuple(<<Name("Ok"), Name("Err")>>)))>>
      [] n = "helper" -> <<[kind |-> "FunctionDef"]>>
      [] n = "bool" -> <<ClassDef(<<MethodStmt>>)>>
      [] OTHER -> <<>>

\* patterns
MatchAs(n) == [kind |-> "MatchAs", name |-> n]

MatchClass(c) == [kind |-> "MatchClass", cls |-> c]

MatchValue(v) == [kind |-> "MatchValue", value |-> v]

MatchSingleton(v) == [kind |-> "MatchSingleton", value |-> v]

MatchOr(ps) == [kind |-> "MatchOr", patterns |-> ps]

\* MatchAs.name of `case _`
NoName == "<None>"

Case(p, g) == [pattern |-> p, guard |-> g]

Member(m) == MatchValue(Attribute(Name("Color"), m))

\* the patterns case clauses are drawn from
Patterns ==
    { MatchAs(NoName), MatchAs("v"),
      MatchClass(Name("Ok")), MatchClass(Name("Err")), MatchClass(Attribute(Name("m"), "Ok")),
      Member("RED"), Member("GREEN"), Member("BLUE"),
      MatchSingleton("True"), MatchSingleton("False"), MatchSingleton("None"),
      MatchOr(<<Member("RED"), Member("GREEN"), Member("BLUE")>>),
      MatchOr(<<MatchClass(Name("Ok")), MatchClass(Name("Err"))>>),
      MatchOr(<<MatchSingleton("True"), MatchSingleton("False")>>),
      MatchOr(<<MatchSingleton("True"), MatchSingleton("False"), MatchSingleton("None")>>) }

\* every pattern without a guard, and `case _ if cond`
Cases == {Case(p, FALSE) : p \in Patterns} \cup {Case(MatchAs(NoName), TRUE)}

\* declared types of the subject parameter; NoneNode: the parameter has no annotation
Annotations ==
    {Name(n) : n \in {"Color", "Result", "ResultP", "MaybeResult", "Single", "Tint", "Typed",
                      "helper", "bool", "Ok", "Missing"}}
    \cup {BinOp(Name("Result"), ConstNone), BinOp(Name("bool"), ConstNone),
          BinOp(Name("Result"), Name("Color")), NoneNode}

FunctionDef(params, anns) == [kind |-> "FunctionDef", args |-> params, annotations |-> anns]

IfStmt == [kind |-> "If"]

\* subject and ancestors (nearest first) of the match statement
Contexts ==
    {[subject |-> Name("c"), ancestors |-> <<FunctionDef(<<"c">>, <<a>>)>>] : a \in Annotations}
    \cup
    { [subject |-> Name("c"), ancestors |-> <<IfStmt, FunctionDef(<<"c">>, <<Name("Color")>>)>>],
      [subject |-> Name("c"), ancestors |-> <<>>],
      [subject |-> Name("c"), ancestors |-> <<FunctionDef(<<"d">>, <<Name("Color")>>)>>],
      [subject |-> Name("c"),
       ancestors |-> <<FunctionDef(<<"d">>, <<Name("Color")>>),
                       FunctionDef(<<"c">>, <<Name("Color")>>)>>],
      [subject |-> Name("c"),
       ancestors |-> <<FunctionDef(<<"d", "c">>, <<Name("Missing"), Name("Color")>>)>>],
      [subject |-> Attribute(Name("self"), "c"),
       ancestors |-> <<FunctionDef(<<"c">>, <<Name("Color")>>)>>] }

MatchNodes ==
    {[id |-> i, subject |-> c.subject, ancestors |-> c.ancestors, cases |-> cs] :
        i \in StmtIds, c \in Contexts, cs \in SeqsUpTo(Cases, MaxCases)}

----------------------------------------------------------------------------
(* ExhaustiveMatchChecker                                                  *)

\* what a helper hands back: a value, or the exception it raised
Returned(v) == [raised |-> "none", val |-> v]

Raised(e) == [raised |-> e, val |-> {}]

\* the dotted segments of a name expression; as_string() joins them with "."
RECURSIVE Segments(_)
Segments(expr) ==
    CASE expr.kind = "Name" -> <<expr.name>>
      [] expr.kind = "Attribute" -> Append(Segments(expr.expr), expr.attrname)
      [] expr.kind = "Const" -> <<expr.value>>
      [] OTHER -> <<"...">>

RECURSIVE JoinDots(_)
JoinDots(segs) ==
    IF Len(segs) = 1 THEN segs[1] ELSE JoinDots(Front(segs)) \o "." \o Last(segs)

\* node.as_string() of a name expression
AsString(expr) == JoinDots(Segments(expr))

\* as_string().split(".")[-1]: splitting the joined text gives the segments back
SplitLast(expr) == Last(Segments(expr))

\* labels in the order sorted() puts them (str comparison by code point)
LabelOrder == <<"BLUE", "Err", "False", "GREEN", "None", "Ok", "RED", "True">>

\* sorted(labels)
Sorted(labels) ==
    LET Chosen(l) == l \in labels
    IN  SelectSeq(LabelOrder, Chosen)

\* a mutant of GetSubjectAnnotation: the parameter is looked for in every enclosing
\* function, nearest first, not only in the nearest one
GetSubjectAnnotationAnyFunction(node) ==
    IF node.subject.kind # "Name" THEN NoneNode
    ELSE
        LET var_name == node.subject.name
            Has(i) == /\ node.ancestors[i].kind = "FunctionDef"
                      /\ \E k \in 1..Len(node.ancestors[i].args) :
                            /\ k <= Len(node.ancestors[i].annotations)
                            /\ node.ancestors[i].args[k] = var_name
            funcs == {i \in 1..Len(node.ancestors) : Has(i)}
        IN  IF funcs = {} THEN NoneNode
            ELSE
                LET parent == node.ancestors[CHOOSE i \in funcs : \A j \in funcs : i <= j]
                    hits == {i \in 1..Len(parent.args) : parent.args[i] = var_name}
                IN  parent.annotations[CHOOSE i \in hits : \A j \in hits : i <= j]

\* _get_subject_annotation: the annotation of the parameter of the nearest enclosing
\* FunctionDef that has the subject's name, else None
GetSubjectAnnotation(node) ==
    IF node.subject.kind # "Name" THEN NoneNode
    ELSE
        LET var_name == node.subject.name
            funcs == {i \in 1..Len(node.ancestors) : node.ancestors[i].kind = "FunctionDef"}
        IN  IF funcs = {} THEN NoneNode
            ELSE
                LET parent == node.ancestors[CHOOSE i \in funcs : \A j \in funcs : i <= j]
                    zipped == 1..(IF Len(parent.args) <= Len(parent.annotations)
                                  THEN Len(parent.args) ELSE Len(parent.annotations))
                    hits == {i \in zipped : parent.args[i] = var_name}
                IN  IF hits = {} THEN NoneNode
                    ELSE parent.annotations[CHOOSE i \in hits : \A j \in hits : i <= j]

\* _extract_union_variants
RECURSIVE ExtractUnionVariants(_)
ExtractUnionVariants(expr) ==
    IF expr.kind = "Subscript" /\ AsString(expr.value) = "Union"
    THEN IF expr.slice.kind = "Tuple"
         THEN Returned({AsString(expr.slice.elts[i]) : i \in 1..Len(expr.slice.elts)})
         ELSE Raised("AttributeError")      \* expr.slice has no attribute elts
    ELSE IF expr.kind = "BinOp" /\ expr.op = "|"
    THEN LET l == ExtractUnionVariants(expr.left)
             r == ExtractUnionVariants(expr.right)
         IN  IF l.raised # "none" THEN l
             ELSE IF r.raised # "none" THEN r
             ELSE Returned(l.val \cup r.val)
    ELSE Returned({})

\* _enum_variants_from_class
EnumVariantsFromClass(cls) ==
    UNION { {cls.body[i].targets[j].name :
                j \in {k \in 1..Len(cls.body[i].targets) :
                          cls.body[i].targets[k].kind = "AssignName"}} :
            i \in {k \in 1..Len(cls.body) : cls.body[k].kind = "Assign"} }

\* _resolve_annotation_target
ResolveAnnotationTarget(annotation) ==
    LET defs == Lookup(annotation.name)
    IN  IF defs = <<>> THEN NoneNode
        ELSE LET definition == defs[1]
             IN  IF definition.kind = "AssignName" /\ definition.parent.kind = "Assign"
                 THEN definition.parent.value
                 ELSE IF definition.kind = "ClassDef" THEN definition
                 ELSE NoneNode

\* _get_variants
GetVariants(annotation) ==
    IF annotation.kind = "Name"
    THEN LET target == ResolveAnnotationTarget(annotation)
         IN  IF target.kind = "None" THEN Returned({})
             ELSE IF target.kind \in {"Subscript", "BinOp"} THEN ExtractUnionVariants(target)
             ELSE IF target.kind = "ClassDef" THEN Returned(EnumVariantsFromClass(target))
             ELSE Returned({})
    ELSE Returned({})

HandledByNamedOnly(pat) ==
    IF pat.kind = "MatchAs" /\ pat.name # NoName THEN Returned({"_"})
    ELSE IF pat.kind = "MatchClass"
    THEN IF pat.cls.kind = "Name" THEN Returned({pat.cls.name})
         ELSE Raised("AttributeError")
    ELSE IF pat.kind = "MatchValue" THEN Returned({SplitLast(pat.value)})
    ELSE Returned({})

\* one turn of the loop of _get_handled_variants: what the pattern adds to handled
HandledBy(pat) ==
    IF pat.kind = "MatchAs" /\ pat.name = NoName THEN Returned({"_"})
    ELSE IF pat.kind = "MatchClass"
    THEN IF pat.cls.kind = "Name" THEN Returned({pat.cls.name})
         ELSE Raised("AttributeError")      \* an Attribute node has no attribute name
    ELSE IF pat.kind = "MatchValue" THEN Returned({SplitLast(pat.value)})
    ELSE Returned({})

\* _get_handled_variants: the loop over node.cases, left to right
RECURSIVE HandledFrom(_, _, _)
HandledFrom(cases, i, handled) ==
    IF i > Len(cases) THEN Returned(handled)
    ELSE LET h == HandledBy(cases[i].pattern)
         IN  IF h.raised # "none" THEN h
             ELSE HandledFrom(cases, i + 1, handled \cup h.val)

GetHandledVariants(node) == HandledFrom(node.cases, 1, {})

MissingSwapped(variants, handled) == handled \ variants

\* missing = variants - handled
Missing(variants, handled) == variants \ handled

\* visit_match: the messages it adds and the exception it ends with
MatchOutcome(node) ==
    LET annotation == GetSubjectAnnotation(node)
        variants == GetVariants(annotation)
        handled == GetHandledVariants(node)
        missing == Missing(variants.val, handled.val)
    IN  IF annotation.kind = "None" THEN [raised |-> "none", added |-> <<>>]
        ELSE IF variants.raised # "none" THEN [raised |-> variants.raised, added |-> <<>>]
        ELSE IF variants.val = {} THEN [raised |-> "none", added |-> <<>>]
        ELSE IF handled.raised # "none" THEN [raised |-> handled.raised, added |-> <<>>]
        ELSE IF "_" \in handled.val THEN [raised |-> "none", added |-> <<>>]
        ELSE IF missing # {}
             THEN [raised |-> "none",
                   added |-> <<Message("match-not-exhaustive", node, <<Sorted(missing)>>)>>]
             ELSE [raised |-> "none", added |-> <<>>]

\* the checker is constructed and handed one match statement of a parsed module
MatchInit ==
    /\ scopes = <<>>
    /\ history = <<>>
    /\ past = NoPast
    /\ messages = <<>>
    /\ call = [op |-> "__init__", stmt |-> NoStmt, before |-> 0]
    /\ err = "none"
    /\ tree \in MatchNodes

VisitMatch ==
    /\ Len(messages) < MaxMessages
    /\ call' = [op |-> "visit_match", stmt |-> NoStmt, before |-> Len(messages)]
    /\ messages' = messages \o MatchOutcome(tree).added
    /\ err' = MatchOutcome(tree).raised
    /\ UNCHANGED <<scopes, history, past, tree>>

MatchNext ==
    \/ VisitMatch
    \/ ReleaseMessages

MatchSpec == MatchInit /\ [][MatchNext]_vars

----------------------------------------------------------------------------
(* Claims about the RebindChecker                                          *)

\* the messages a step added to the linter's list
Added == SubSeq(messages', Len(messages) + 1, Len(messages'))

\* how many messages of a sequence are rebind diagnostics carrying name n
RebindCount(seq, n) ==
    Cardinality({i \in 1..Len(seq) : seq[i].msg_id = "rebind" /\ seq[i].args = <<n>>})

\* a step that ran visit_assign while some scope instance was innermost
AssignStep == call'.op = "visit_assign" /\ history # <<>>

\* C1: in a scope instance, the first assignment binding a name n adds no rebind
\* message for n; every later assignment binding n while that instance is innermost
\* adds exactly one rebind message carrying n, located at that assignment; earlier
\* messages are kept.
C1_RebindPerOccurrence ==
    [][AssignStep =>
        /\ SubSeq(messages', 1, Len(messages)) = messages
        /\ \A n \in call'.stmt.names :
              /\ RebindCount(Added, n) = IF n \in Last(history).names THEN 1 ELSE 0
              /\ \A i \in 1..Len(Added) :
                    Added[i].args = <<n>> => Added[i].node = call'.stmt.id]_vars

\* the second binding of x in one scope instance was diagnosed once, at its statement
C1_Witness ==
    /\ call.op = "visit_assign"
    /\ err = "none"
    /\ "x" \in call.stmt.names
    /\ Emitted = <<[msg_id |-> "rebind", node |-> call.stmt.id, args |-> <<"x">>]>>

\* C2: a name bound in a function that has been left (a sibling of the function now
\* innermost) and bound for the first time in the function now innermost is not
\* diagnosed; visit_functiondef pushes one empty scope and leave_functiondef removes
\* the innermost scope, and with it the names bound there.
C2_ScopeIsolation ==
    [][/\ (AssignStep /\ Last(history).kind = "function") =>
            \A n \in call'.stmt.names :
                (n \in past.left /\ n \notin Last(history).names) => RebindCount(Added, n) = 0
       /\ (call'.op = "visit_functiondef") => scopes' = Append(scopes, {})
       /\ (call'.op = "leave_functiondef" /\ scopes # <<>>) => scopes' = Front(scopes)]_vars

\* x was bound in a function that was left, then bound in a sibling without a message
C2_Witness ==
    /\ call.op = "visit_assign"
    /\ err = "none"
    /\ Len(history) = 2
    /\ history[1].kind = "module"
    /\ history[2].kind = "function"
    /\ "x" \in past.left
    /\ "x" \notin history[1].names
    /\ "x" \in call.stmt.names
    /\ Emitted = <<>>

\* C3: binding a name that an outer scope of the stack holds, but the innermost scope
\* does not yet, adds no rebind message; leaving the nested function keeps every
\* outer scope and its names, so binding a shadowed name again in the scope that
\* already held it adds exactly one rebind message.
C3_Shadowing ==
    [][/\ (AssignStep /\ Len(history) >= 2) =>
            \A n \in call'.stmt.names :
                ( /\ \E k \in 1..(Len(history) - 1) : n \in history[k].names
                  /\ n \notin Last(history).names ) => RebindCount(Added, n) = 0
       /\ (call'.op = "leave_functiondef" /\ Len(scopes) >= 2) =>
            /\ scopes' = Front(scopes)
            /\ \A k \in 1..Len(history') : history'[k].names \subseteq scopes'[k]
       /\ AssignStep =>
            \A n \in call'.stmt.names :
                (n \in past.shadowed /\ n \in Last(history).names) => RebindCount(Added, n) = 1]_vars

\* x was bound at module level, shadowed in a function, and after that function was
\* left bound again at module level: that last binding was diagnosed
C3_Witness ==
    /\ call.op = "visit_assign"
    /\ err = "none"
    /\ Len(history) = 1
    /\ history[1].kind = "module"
    /\ "x" \in past.shadowed
    /\ "x" \in call.stmt.names
    /\ Emitted = <<[msg_id |-> "rebind", node |-> call.stmt.id, args |-> <<"x">>]>>

----------------------------------------------------------------------------
(* Claims about the ExhaustiveMatchChecker                                 *)

\* visit_match has run on the match statement
MatchRan == call.op = "visit_match"

\* the match statement is the body of `def f(c: <annotation>)` with these clauses
MatchOver(annotation, cases) ==
    /\ tree.subject = Name("c")
    /\ tree.ancestors = <<FunctionDef(<<"c">>, <<annotation>>)>>
    /\ tree.cases = cases

\* the one match-not-exhaustive message at the match statement listing these labels
NotExhaustive(labels) ==
    <<[msg_id |-> "match-not-exhaustive", node |-> tree.id, args |-> <<labels>>]>>

Position(l) == CHOOSE i \in 1..Len(LabelOrder) : LabelOrder[i] = l

\* seq lists exactly the labels of S, each once, in ascending order
IsSortedListOf(seq, S) ==
    /\ Len(seq) = Cardinality(S)
    /\ {seq[i] : i \in 1..Len(seq)} = S
    /\ \A i, j \in 1..Len(seq) : i < j => Position(seq[i]) < Position(seq[j])

\* an unconditional `case _`
CatchAll == Case(MatchAs(NoName), FALSE)

HasCatchAll == \E i \in 1..Len(tree.cases) : tree.cases[i] = CatchAll

C5_WildcardShortCircuit ==
    (MatchRan /\ HasCatchAll) => Emitted = <<>>

\* `case _` first, then Color.RED, over a Color subject: GREEN and BLUE are unhandled
\* and nothing is reported
C5_Witness ==
    /\ MatchRan
    /\ err = "none"
    /\ MatchOver(Name("Color"), <<CatchAll, Case(Member("RED"), FALSE)>>)
    /\ Emitted = <<>>

\* the labels of a pattern as an or-pattern's sub-patterns contribute them
SubLabel(pat) ==
    CASE pat.kind = "MatchClass" -> SplitLast(pat.cls)
      [] pat.kind = "MatchValue" -> SplitLast(pat.value)
      [] pat.kind = "MatchSingleton" -> pat.value
      [] OTHER -> "?"

OrLabels(pat) == {SubLabel(pat.patterns[i]) : i \in 1..Len(pat.patterns)}

\* C6 (as stated): a single or-pattern clause whose sub-pattern labels together equal
\* the subject's non-empty variant set gets no message.
C6_OrPatternCoverage ==
    LET V == GetVariants(GetSubjectAnnotation(tree))
    IN  ( /\ MatchRan
          /\ V.raised = "none" /\ V.val # {}
          /\ Len(tree.cases) = 1
          /\ ~tree.cases[1].guard
          /\ tree.cases[1].pattern.kind = "MatchOr"
          /\ OrLabels(tree.cases[1].pattern) = V.val ) => Emitted = <<>>

\* C7 (as stated): for a parameter declared bool, a match with only a True clause gets
\* one message listing False, and a match with True and False clauses gets none.
C7_BooleanDomain ==
    /\ (MatchRan /\ MatchOver(Name("bool"), <<Case(MatchSingleton("True"), FALSE)>>)) =>
            Emitted = NotExhaustive(<<"False">>)
    /\ (MatchRan /\ MatchOver(Name("bool"), <<Case(MatchSingleton("True"), FALSE),
                                              Case(MatchSingleton("False"), FALSE)>>)) =>
            Emitted = <<>>

\* C8 (as stated): for a parameter declared Result | None (Result = Union[Ok, Err]), a
\* match with a clause for Ok and one for Err, no None clause and no catch-all gets
\* exactly one message whose missing list is [None].
C8_OptionalDomain ==
    (MatchRan /\ MatchOver(BinOp(Name("Result"), ConstNone),
                           <<Case(MatchClass(Name("Ok")), FALSE),
                             Case(MatchClass(Name("Err")), FALSE)>>)) =>
        Emitted = NotExhaustive(<<"None">>)

\* C9 (as stated): for an alias to a disjunction of Ok and Err, spelled Union[Ok, Err]
\* or Ok | Err, a match handling only Ok by a class clause gets one message with
\* missing = [Err].
C9_AliasDisjunction ==
    \A alias \in {"Result", "ResultP"} :
        (MatchRan /\ MatchOver(Name(alias), <<Case(MatchClass(Name("Ok")), FALSE)>>)) =>
            Emitted = NotExhaustive(<<"Err">>)

\* C10 (as stated): for a parameter declared Result | Color, a match handling only Ok
\* gets one message listing every other label of both domains in alphabetical order.
C10_CombinedDomain ==
    (MatchRan /\ MatchOver(BinOp(Name("Result"), Name("Color")),
                           <<Case(MatchClass(Name("Ok")), FALSE)>>)) =>
        Emitted = NotExhaustive(<<"BLUE", "Err", "GREEN", "RED">>)

----------------------------------------------------------------------------
(* Claims about the life cycle of the RebindChecker                        *)

\* C11: open(), called in any state, leaves exactly one empty module-level scope and
\* adds no message; a second open() right after leaves the same scopes; and after an
\* open() the first binding of a name in a scope instance adds no rebind message,
\* whatever was bound before that open().
C11_OpenResets ==
    [][/\ (call'.op = "open") =>
            /\ scopes' = <<{}>>
            /\ err' = "none"
            /\ messages' = messages
       /\ (call.op = "open" /\ call'.op = "open") => scopes' = scopes
       /\ (call.op = "open" /\ AssignStep) => Added = <<>>
       /\ AssignStep =>
            \A n \in call'.stmt.names :
                n \notin Last(history).names => RebindCount(Added, n) = 0]_vars

\* open() was called with two scopes on the stack (a function entered and not left)
\* and x bound: one empty scope is left
C11_Witness ==
    /\ call.op = "open"
    /\ call.stmt.depth = 2
    /\ "x" \in call.stmt.names
    /\ scopes = <<{}>>
    /\ history = <<Instance("module")>>

\* C12 (as stated): when the host stops calling the visitor while functions are entered
\* and not left, the pushed scopes are unwound all the same: the tracker holds the
\* single empty module-level scope before the next run begins.
C12_AbortUnwinds ==
    (call.op = "abort" /\ Len(history) >= 2) => scopes = <<{}>>

\* the function definitions enclosing the match statement, as positions of its ancestors
EnclosingFunctions == {i \in 1..Len(tree.ancestors) : tree.ancestors[i].kind = "FunctionDef"}

NearestFunction == tree.ancestors[CHOOSE i \in EnclosingFunctions : \A j \in EnclosingFunctions : i <= j]

\* the declared types of the nearest function's parameters named like the subject
DeclaredTypes ==
    {NearestFunction.annotations[i] :
        i \in {k \in 1..Len(NearestFunction.args) : NearestFunction.args[k] = tree.subject.name}}

\* the subject of the match statement cannot be resolved to a variant set
Unresolvable ==
    \/ tree.subject.kind # "Name"
    \/ EnclosingFunctions = {}
    \/ DeclaredTypes = {}
    \/ DeclaredTypes = {NoneNode}
    \/ \E a \in DeclaredTypes :
          /\ a.kind = "Name"
          /\ \/ Lookup(a.name) = <<>>
             \/ Lookup(a.name)[1].kind \notin {"AssignName", "ClassDef"}

\* C13: visit_match adds no message and raises nothing when the subject is not a
\* simple name, when no function encloses the match, when the nearest enclosing
\* function has no parameter of the subject's name, when that parameter is not
\* annotated, or when the annotation's name has no definition or one that is neither
\* an assignment nor a class; whatever the case clauses are.
C13_UnresolvableSilent ==
    (MatchRan /\ Unresolvable) => (Emitted = <<>> /\ err = "none")

\* the subject c is a parameter of the outer function only; the nearest function g(d)
\* does not have it, and the clause `case m.Ok()` is never looked at
C13_Witness ==
    /\ MatchRan
    /\ tree.subject = Name("c")
    /\ tree.ancestors = <<FunctionDef(<<"d">>, <<Name("Color")>>),
                          FunctionDef(<<"c">>, <<Name("Color")>>)>>
    /\ tree.cases = <<Case(MatchClass(Attribute(Name("m"), "Ok")), FALSE)>>
    /\ Emitted = <<>>
    /\ err = "none"

\* C14 (as stated): every callback on a well-formed node completes, with or without
\* messages, and never ends in an exception; here for visit_match over every match
\* statement of the model, an alias `Union[Ok]` and a clause `case m.Ok()` included.
C14_NoException ==
    MatchRan => err = "none"

\* the labels the clauses handle when only an unconditional `case _` counts as catch-all
ClassifiedLabels == GetHandledVariants(tree).val \ {"_"}

\* C17 (as stated): only a wildcard clause with neither a capture name nor a guard
\* makes a match exhaustive; over a non-empty variant set V, a match whose only
\* fallback is `case _ if cond` or `case v` still gets the message listing the labels
\* of V that no other clause handles.
C17_CatchAllClassification ==
    LET V == GetVariants(GetSubjectAnnotation(tree))
        H == GetHandledVariants(tree)
    IN  ( /\ MatchRan
          /\ V.raised = "none" /\ V.val # {}
          /\ H.raised = "none"
          /\ ~HasCatchAll
          /\ V.val \ ClassifiedLabels # {} ) =>
            Emitted = NotExhaustive(Sorted(V.val \ ClassifiedLabels))

\* since the last open(), every leave_functiondef matched a function entered and not
\* yet left: the module's scope instance is still live
Balanced(h) == h # <<>> /\ h[1].kind = "module"

\* the functions entered and not yet left
Entered(h) == Cardinality({i \in 1..Len(h) : h[i].kind = "function"})

\* C15: after open() and while every leave_functiondef matches an earlier unmatched
\* visit_functiondef, the scope stack is never empty and is 1 longer than the number of
\* functions entered and not yet left; visit_functiondef pushes exactly one empty
\* scope, leave_functiondef removes exactly the innermost scope and keeps the others,
\* and visit_assign changes no scope but the innermost.
C15_ScopeStack ==
    [][/\ Balanced(history') => (scopes' # <<>> /\ Len(scopes') = 1 + Entered(history'))
       /\ (Balanced(history) /\ call'.op = "visit_functiondef") =>
            scopes' = Append(scopes, {})
       /\ (Balanced(history) /\ Entered(history) >= 1 /\ call'.op = "leave_functiondef") =>
            /\ Len(scopes') = Len(scopes) - 1
            /\ \A k \in 1..Len(scopes') : scopes'[k] = scopes[k]
       /\ (Balanced(history) /\ call'.op = "visit_assign") =>
            /\ Len(scopes') = Len(scopes)
            /\ \A k \in 1..(Len(scopes) - 1) : scopes'[k] = scopes[k]]_vars

\* a function that bound y inside a module that bound x has been left: the module's
\* scope alone remains, with x in it
C15_Witness ==
    /\ call.op = "leave_functiondef"
    /\ err = "none"
    /\ Balanced(history)
    /\ Entered(history) = 0
    /\ "y" \in past.left
    /\ scopes = <<{"x"}>>

\* C16: the rebind test of one assignment statement reads the innermost scope as it
\* was before the statement, and the scope is updated afterwards: a name that is a
\* target twice and was not bound gets no message (x = x = 1), a name that was bound
\* gets exactly one message however often it is a target, and after the statement the
\* innermost scope holds every target name.
C16_MultiTarget ==
    [][AssignStep =>
        /\ \A n \in call'.stmt.names :
              RebindCount(Added, n) = IF n \in Last(scopes) THEN 1 ELSE 0
        /\ Len(Added) = Cardinality(call'.stmt.names \cap Last(scopes))
        /\ Last(scopes') = Last(scopes) \cup call'.stmt.names
        /\ Len(scopes') = Len(scopes)]_vars

\* x = x = 1 as the first binding of x in a function: no message, x is bound
C16_Witness ==
    /\ call.op = "visit_assign"
    /\ err = "none"
    /\ call.stmt.repeated = {"x"}
    /\ Len(history) = 2
    /\ past.left = {}
    /\ past.shadowed = {}
    /\ Emitted = <<>>
    /\ "x" \in Last(scopes)

====
